---- MODULE Spec2Model ----
(***************************************************************************)
(* auto-mode: the sunrise/sunset calculator (auto_mode/suntime.py) and the *)
(* glue that drives the display appearance from it (auto_mode/main.py).    *)
(*                                                                         *)
(* Numbers.  The calculator works in floating point.  Angles, hours and    *)
(* cosines are kept here as integers in units of 10^-6 (Scale); latitude   *)
(* and longitude are integers in units of 10^-2 degree.  The trigonometric *)
(* steps 2-8 of _calc_sun_time (lines 73-107 and 116-129) have no integer  *)
(* counterpart, so their values at the sample inputs are tabulated in      *)
(* TrigRows: each row holds what the source computes for that input, in    *)
(* units of 10^-6.  Everything around them (the day of the year, the range *)
(* normalisation, the polar tests, the split into hour and minute, the     *)
(* carries, the construction of the datetime and the two public wrappers)  *)
(* is computed by the model as the source computes it.                     *)
(***************************************************************************)
EXTENDS Integers, Sequences, FiniteSets, TLC

VARIABLES
    lat, lon, date,         \* the arguments of the sun-time calls
    sunrise, sunset,        \* what get_local_sunrise_time / _sunset_time gave
    riseCalc, setCalc,      \* intermediates of the two _calc_sun_time calls
    doyDate, doyN,          \* day-of-year step: its input and its result
    splitUT, splitDate, splitOut,   \* hour/minute split: inputs and result
    poll, auth, location, everAvailable, coordRet,   \* get_coordinates loop
    clock, file,            \* time.time() and the file /tmp/auto-switch
    inner,                  \* data_cache: each process's call of inner() in progress
    call, lastWrite,        \* data_cache: the last call returned, the last write
    mainPc, now, commands   \* main

sunVars   == <<lat, lon, date, sunrise, sunset, riseCalc, setCalc>>
doyVars   == <<doyDate, doyN>>
splitVars == <<splitUT, splitDate, splitOut>>
coordVars == <<poll, auth, location, everAvailable, coordRet>>
cacheVars == <<clock, file, inner, call, lastWrite>>
mainVars  == <<mainPc, now, commands>>
vars == <<sunVars, doyVars, splitVars, coordVars, cacheVars, mainVars>>

\* Fixed-point unit: 10^-6 of a degree, an hour or a cosine.
Scale == 1000 * 1000

(***************************************************************************)
(* Values                                                                  *)
(***************************************************************************)
Pending == [kind |-> "pending", year |-> 0, month |-> 0, day |-> 0,
            hour |-> 0, minute |-> 0, msg |-> ""]
NoneValue == [kind |-> "None", year |-> 0, month |-> 0, day |-> 0,
              hour |-> 0, minute |-> 0, msg |-> ""]
ValueError == [kind |-> "ValueError", year |-> 0, month |-> 0, day |-> 0,
               hour |-> 0, minute |-> 0, msg |-> ""]
NeverRises == "The sun never rises on this location (on the specified date)"
NeverSets == "The sun never sets on this location (on the specified date)"

SunTimeException(text) ==
    [kind |-> "SunTimeException", year |-> 0, month |-> 0, day |-> 0,
     hour |-> 0, minute |-> 0, msg |-> text]

NoCalc == [done |-> FALSE, N |-> 0, L |-> 0, RA |-> 0, cosH |-> 0,
           hasUT |-> FALSE, rawUT |-> 0, UT |-> 0]

(***************************************************************************)
(* The calendar of datetime.date / datetime.datetime                       *)
(***************************************************************************)
IsLeap(year) == year % 4 = 0 /\ (year % 100 # 0 \/ year % 400 = 0)

DaysInMonth(year, month) ==
    IF month = 2 THEN (IF IsLeap(year) THEN 29 ELSE 28)
    ELSE IF month \in {4, 6, 9, 11} THEN 30 ELSE 31

RECURSIVE DaysBeforeMonth(_, _)
DaysBeforeMonth(year, month) ==
    IF month = 1 THEN 0
    ELSE DaysBeforeMonth(year, month - 1) + DaysInMonth(year, month - 1)

\* date.timetuple().tm_yday: the ordinal day of the year, 1 for 1 January
YearDay(year, month, day) == DaysBeforeMonth(year, month) + day

\* date.toordinal(): days since 0001-01-01, that day being 1
ToOrdinal(year, month, day) ==
    LET y == year - 1
    IN  y * 365 + (y \div 4) - (y \div 100) + (y \div 400)
        + YearDay(year, month, day)

\* datetime.datetime(year, month, day, hour, minute, tzinfo=utc): the
\* constructor raises ValueError for a field out of range
MakeDatetime(year, month, day, hour, minute) ==
    IF /\ year \in 1..9999
       /\ month \in 1..12
       /\ day \in 1..DaysInMonth(year, month)
       /\ hour \in 0..23
       /\ minute \in 0..59
    THEN [kind |-> "datetime", year |-> year, month |-> month, day |-> day,
          hour |-> hour, minute |-> minute, msg |-> ""]
    ELSE ValueError

\* Aware datetimes compare by their UTC instant: minutes since 0001-01-01
ToMinutes(dt) ==
    (ToOrdinal(dt.year, dt.month, dt.day) * 24 + dt.hour) * 60 + dt.minute

(***************************************************************************)
(* suntime.py                                                              *)
(***************************************************************************)
\* _force_range (lines 147-153): one addition or one subtraction of _max
_force_range(v, _max) ==
    IF v < 0 THEN v + _max
    ELSE IF v >= _max THEN v - _max
    ELSE v

\* Step 1 (lines 67-70): the day of the year by the almanac's formula
DayOfYear(year, month, day) ==
    LET N1 == (275 * month) \div 9
        N2 == (month + 9) \div 12
        N3 == 1 + ((year - 4 * (year \div 4) + 2) \div 3)
    IN  N1 - (N2 * N3) + day - 30

\* int(x) of a float: truncation towards zero, in whole units
IntPart(x) == IF x >= 0 THEN x \div Scale ELSE -((-x) \div Scale)

\* The binade of a float whose integer part has magnitude h: 0 for h = 0,
\* 1 for 1, 2 for 2..3, 3 for 4..7, ...  The float nearest to h + f, less h,
\* is the same for every h of one binade.
Binade(h) ==
    IF h = 0 THEN 0
    ELSE IF h < 2 THEN 1
    ELSE IF h < 4 THEN 2
    ELSE IF h < 8 THEN 3
    ELSE IF h < 16 THEN 4
    ELSE IF h < 32 THEN 5
    ELSE 6

\* The fractions of an hour (in 10^-6) that are an exact half minute in
\* decimal are the odd multiples of 25000.  The double the source computes
\* for (UT - int(UT)) * 60 at such a UT is a few ulps off the half, or is the
\* half exactly; which, depends on the binade of UT (entry b + 1 is binade b,
\* |UT| < 64).  TieAbove: the product is above the half.  TieExact: it is the
\* half.  Otherwise it is below.
TieAbove ==
    << {},
       {175000, 225000, 425000, 475000, 725000, 975000},
       {75000, 225000, 325000, 475000, 575000, 725000, 825000, 975000},
       {25000, 75000, 275000, 325000, 525000, 575000, 775000, 825000},
       {25000, 175000, 275000, 425000, 525000, 675000, 775000, 925000},
       {175000, 225000, 425000, 475000, 675000, 725000, 925000, 975000},
       {75000, 225000, 325000, 475000, 575000, 725000, 825000, 975000} >>
TieExact ==
    << {25000 * j : j \in {1, 3, 5, 7, 9, 11, 13, 15, 17, 19, 21, 23, 25, 27,
                           29, 31, 33, 35, 37, 39}},
       {125000, 375000, 575000, 625000, 675000, 825000, 875000, 925000},
       {125000, 375000, 625000, 875000},
       {125000, 375000, 625000, 875000},
       {125000, 375000, 625000, 875000},
       {125000, 375000, 625000, 875000},
       {125000, 375000, 625000, 875000} >>

\* Where the double (UT - int(UT)) * 60 lies against the half between two
\* integers: 1 above, -1 below, 0 on it.  a is |UT - int(UT)|, r the part of
\* a * 60 past the integer below it, b the binade's entry.
FloatSide(a, r, b) ==
    IF 2 * r > Scale THEN 1
    ELSE IF 2 * r < Scale THEN -1
    ELSE IF a \in TieAbove[b] THEN 1
    ELSE IF a \in TieExact[b] THEN 0
    ELSE -1

\* round(x, 0) of a double between q and q + 1: the nearest integer, the even
\* one when x is the half exactly
RoundTo(q, side) ==
    IF side > 0 THEN q + 1
    ELSE IF side < 0 THEN q
    ELSE IF q % 2 = 0 THEN q ELSE q + 1

RoundMinutes(a, b) ==
    RoundTo((a * 60) \div Scale, FloatSide(a, (a * 60) % Scale, b))

Abs(x) == IF x < 0 THEN -x ELSE x

\* Line 134: round((UT - int(UT)) * 60, 0)
MinuteOf(UT) ==
    IF UT < 0
    THEN -RoundMinutes(Abs(UT - IntPart(UT) * Scale), Binade(Abs(IntPart(UT))) + 1)
    ELSE RoundMinutes(UT - IntPart(UT) * Scale, Binade(IntPart(UT)) + 1)

\* HourMinute without the minute carry of lines 135-137
HourMinute_NoCarry(UT, day) ==
    LET hr0  == _force_range(IntPart(UT), 24)
        min0 == MinuteOf(UT)
    IN  IF hr0 = 24
        THEN [hr |-> 0, min |-> min0, day |-> day + 1]
        ELSE [hr |-> hr0, min |-> min0, day |-> day]

\* Steps 10 and 11 (lines 133-142): hour and minute of UT, the minute carry
\* and the hour overflow into the day
HourMinute(UT, day) ==
    LET hr0  == _force_range(IntPart(UT), 24)
        min0 == MinuteOf(UT)
        hr1  == IF min0 = 60 THEN hr0 + 1 ELSE hr0
        min1 == IF min0 = 60 THEN 0 ELSE min0
    IN  IF hr1 = 24
        THEN [hr |-> 0, min |-> min1, day |-> day + 1]
        ELSE [hr |-> hr1, min |-> min1, day |-> day]

\* The fields line 144 hands to datetime.datetime: year and month of the
\* reference date, day/hour/minute of steps 10 and 11
TimeFields(UT, d) ==
    LET hm == HourMinute(UT, d.day)
    IN  [year |-> d.year, month |-> d.month, day |-> hm.day,
         hour |-> hm.hr, minute |-> hm.min]

\* Sample inputs: coordinates in 10^-2 degree, and reference dates
Coords == { <<0, 0>>, <<5250, 1340>>, <<3777, -12242>>, <<7800, 1500>>,
            <<7320, -18000>>, <<7950, 18000>>, <<5250, 11619>>,
            <<5250, 5424>> }
Day(y, m, d) == [year |-> y, month |-> m, day |-> d]
Dates == { Day(2023, 1, 30), Day(2023, 1, 31), Day(2023, 6, 21),
           Day(2023, 10, 23), Day(2023, 12, 21), Day(2024, 6, 21) }

\* Steps 2-8 at the sample inputs, as the source computes them:
\* <<lat, lon, N, isRiseTime, L before line 86, RA before line 91, cosH,
\*   T - lngHour of line 129 (0 where cosH is outside [-1, 1]: not computed)>>
TrigRows ==
   {
     <<0, 0, 30, TRUE, 310031058, -47528467, -14659, 30165714>>,
     <<0, 0, 30, FALSE, 310538776, -47015411, -14648, 18279009>>,
     <<0, 0, 31, TRUE, 311046424, -46503206, -14636, 30168440>>,
     <<0, 0, 31, FALSE, 311554002, -45991851, -14625, 18281451>>,
     <<0, 0, 172, TRUE, 449553420, 89513341, -15218, 5968877>>,
     <<0, 0, 172, FALSE, 450030489, -89966775, -15218, -5913056>>,
     <<0, 0, 296, TRUE, 569501947, 27439102, -14238, 5686299>>,
     <<0, 0, 296, FALSE, 569999824, 27914462, -14247, -6206058>>,
     <<0, 0, 355, TRUE, 629034494, 88947856, -15218, 5906249>>,
     <<0, 0, 355, FALSE, 629543666, 89502711, -15218, -5973354>>,
     <<0, 0, 173, TRUE, 450507528, -89446923, -15218, 5972483>>,
     <<0, 0, 173, FALSE, 450984539, -88927117, -15218, -5909457>>,
     <<5250, 1340, 30, TRUE, 309993259, -47566695, 392954, 30870835>>,
     <<5250, 1340, 30, FALSE, 310500981, -47053576, 389541, 15801229>>,
     <<5250, 1340, 31, TRUE, 311008635, -46541307, 386100, 30845058>>,
     <<5250, 1340, 31, FALSE, 311516218, -46029889, 382632, 15832372>>,
     <<5250, 1340, 172, TRUE, 449517904, 89474637, -590064, 2722769>>,
     <<5250, 1340, 172, FALSE, 449994975, 89994524, -590088, -4453770>>,
     <<5250, 1340, 296, TRUE, 569464888, 27403742, 236660, 5760074>>,
     <<5250, 1340, 296, FALSE, 569962755, 27879049, 240798, -8082636>>,
     <<5250, 1340, 355, TRUE, 628996590, 88906553, 539989, 7249597>>,
     <<5250, 1340, 355, FALSE, 629505760, 89461404, 540066, -9104336>>,
     <<5250, 1340, 173, TRUE, 450472016, -89485622, -590065, 2726370>>,
     <<5250, 1340, 173, FALSE, 450949029, -88965811, -589996, -4450608>>,
     <<3777, -12242, 30, TRUE, 310376370, -47179440, 227878, 39262111>>,
     <<3777, -12242, 30, FALSE, 310884041, -46666962, 225840, 25515124>>,
     <<3777, -12242, 31, TRUE, 311391641, -46155335, 223785, 39248626>>,
     <<3777, -12242, 31, FALSE, 311899171, -45644558, 221715, 25533741>>,
     <<3777, -12242, 172, TRUE, 449877883, 89866923, -355229, 12802404>>,
     <<3777, -12242, 172, FALSE, 450354932, -89613214, -355222, 3578508>>,
     <<3777, -12242, 296, TRUE, 569840544, 27762321, 138457, 14431793>>,
     <<3777, -12242, 296, FALSE, 570338515, 28238170, 140909, 1360059>>,
     <<3777, -12242, 355, TRUE, 629380784, 89325213, 316703, 15359434>>,
     <<3777, -12242, 355, FALSE, 629889980, 89880105, 316725, 901664>>,
     <<3777, -12242, 173, TRUE, 450831951, -89093391, -355187, 12806176>>,
     <<3777, -12242, 173, FALSE, 451308944, -88573622, -355125, 3581707>>,
     <<7800, 1500, 30, TRUE, 309988746, -47571259, 1435094, 0>>,
     <<7800, 1500, 30, FALSE, 310496469, -47058133, 1422760, 0>>,
     <<7800, 1500, 31, TRUE, 311004123, -46545857, 1410327, 0>>,
     <<7800, 1500, 31, FALSE, 311511707, -46034431, 1397797, 0>>,
     <<7800, 1500, 172, TRUE, 449513663, 89470016, -2113076, 0>>,
     <<7800, 1500, 172, FALSE, 449990734, 89989903, -2113163, 0>>,
     <<7800, 1500, 296, TRUE, 569460463, 27399521, 870157, 8772580>>,
     <<7800, 1500, 296, FALSE, 569958329, 27874821, 885106, -11411354>>,
     <<7800, 1500, 355, TRUE, 628992064, 88901621, 1966399, 0>>,
     <<7800, 1500, 355, FALSE, 629501234, 89456471, 1966681, 0>>,
     <<7800, 1500, 173, TRUE, 450467776, -89490243, -2113082, 0>>,
     <<7800, 1500, 173, FALSE, 450944789, -88970432, -2112832, 0>>,
     <<7320, -18000, 30, TRUE, 310538776, -47015411, 999847, 48156299>>,
     <<7320, -18000, 30, FALSE, 311046424, -46503206, 991089, 24734645>>,
     <<7320, -18000, 31, TRUE, 311554002, -45991851, 982263, 47505093>>,
     <<7320, -18000, 31, FALSE, 312061508, -45481346, 973370, 25110258>>,
     <<7320, -18000, 172, TRUE, 450030489, -89966775, -1488833, 0>>,
     <<7320, -18000, 172, FALSE, 450507528, -89446923, -1488766, 0>>,
     <<7320, -18000, 296, TRUE, 569999824, 27914462, 622959, 20308360>>,
     <<7320, -18000, 296, FALSE, 570497840, 28390542, 633450, 3118066>>,
     <<7320, -18000, 355, TRUE, 629543666, 89502711, 1383474, 0>>,
     <<7320, -18000, 355, FALSE, 630052873, -89942382, 1383528, 0>>,
     <<7320, -18000, 173, TRUE, 450984539, -88927117, -1488580, 0>>,
     <<7320, -18000, 173, FALSE, 451461523, -88407368, -1488275, 0>>,
     <<7950, 18000, 30, TRUE, 309523273, -48042371, 1659126, 0>>,
     <<7950, 18000, 30, FALSE, 310031058, -47528467, 1645086, 0>>,
     <<7950, 18000, 31, TRUE, 310538776, -47015411, 1630931, 0>>,
     <<7950, 18000, 31, FALSE, 311046424, -46503206, 1616663, 0>>,
     <<7950, 18000, 172, TRUE, 449076321, 88993436, -2422688, 0>>,
     <<7950, 18000, 172, FALSE, 449553420, 89513341, -2422966, 0>>,
     <<7950, 18000, 296, TRUE, 569004207, 26964454, 982592, -971865>>,
     <<7950, 18000, 296, FALSE, 569501947, 27439102, 999781, -24179312>>,
     <<7950, 18000, 355, TRUE, 628525356, 88393070, 2255118, 0>>,
     <<7950, 18000, 355, FALSE, 629034494, 88947856, 2255641, 0>>,
     <<7950, 18000, 173, TRUE, 450030489, -89966775, -2423051, 0>>,
     <<7950, 18000, 173, FALSE, 450507528, -89446923, -2422941, 0>>,
     <<5250, 11619, 30, TRUE, 309703291, -47860095, 394891, 24025419>>,
     <<5250, 11619, 30, FALSE, 310211052, -47346491, 391494, 8939695>>,
     <<5250, 11619, 31, TRUE, 310718745, -46833737, 388068, 23999812>>,
     <<5250, 11619, 31, FALSE, 311226369, -46321833, 384616, 8970800>>,
     <<5250, 11619, 172, TRUE, 449245456, 89177744, -590030, -4130765>>,
     <<5250, 11619, 172, FALSE, 449722544, 89697643, -590080, -11307504>>,
     <<5250, 11619, 296, TRUE, 569180640, 27132636, 234292, -1101213>>,
     <<5250, 11619, 296, FALSE, 569678429, 27607535, 238436, -14925350>>,
     <<5250, 11619, 355, TRUE, 628705841, 88589733, 539921, 394263>>,
     <<5250, 11619, 355, FALSE, 629214991, 89144545, 540028, -15959193>>,
     <<5250, 11619, 173, TRUE, 450199602, -89782483, -590084, -4127414>>,
     <<5250, 11619, 173, FALSE, 450676632, -89262646, -590041, -11304086>>,
     <<5250, 5424, 30, TRUE, 309878053, -47683234, 393725, 28151055>>,
     <<5250, 5424, 30, FALSE, 310385791, -47169923, 390318, 13075038>>,
     <<5250, 5424, 31, TRUE, 310893460, -46657461, 386883, 28125345>>,
     <<5250, 5424, 31, FALSE, 311401059, -46145849, 383422, 13106166>>,
     <<5250, 5424, 172, TRUE, 449409658, 89356678, -590052, -251>>,
     <<5250, 5424, 172, FALSE, 449886735, 89876570, -590087, -7176852>>,
     <<5250, 5424, 296, TRUE, 569351947, 27296000, 235719, 3033982>>,
     <<5250, 5424, 296, FALSE, 569849783, 27771144, 239860, -10801352>>,
     <<5250, 5424, 355, TRUE, 628881070, 88780673, 539964, 4525879>>,
     <<5250, 5424, 355, FALSE, 629390232, 89335509, 540053, -11827882>>,
     <<5250, 5424, 173, TRUE, 450363783, -89603568, -590075, 3251>>,
     <<5250, 5424, 173, FALSE, 450840803, -89083746, -590016, -7173588>>
   }

Trig(la, lo, N, isRiseTime) ==
    CHOOSE r \in TrigRows :
        r[1] = la /\ r[2] = lo /\ r[3] = N /\ r[4] = isRiseTime

\* The intermediates of _calc_sun_time(lat, lon, date, isRiseTime)
CalcTrace(la, lo, d, isRiseTime) ==
    LET N   == DayOfYear(d.year, d.month, d.day)
        row == Trig(la, lo, N, isRiseTime)
        inRange == row[7] <= Scale /\ row[7] >= -Scale
    IN  [done |-> TRUE, N |-> N,
         L |-> _force_range(row[5], 360 * Scale),
         RA |-> _force_range(row[6], 360 * Scale),
         cosH |-> row[7],
         hasUT |-> inRange,
         rawUT |-> IF inRange THEN row[8] ELSE 0,
         UT |-> IF inRange THEN _force_range(row[8], 24 * Scale) ELSE 0]

\* _calc_sun_time (lines 47-144)
_calc_sun_time(la, lo, d, isRiseTime) ==
    LET c == CalcTrace(la, lo, d, isRiseTime)
    IN  IF c.cosH > Scale THEN NoneValue
        ELSE IF c.cosH < -Scale THEN NoneValue
        ELSE LET f == TimeFields(c.UT, d)
             IN  MakeDatetime(f.year, f.month, f.day, f.hour, f.minute)

\* get_local_sunrise_time (lines 11-26).  astimezone changes the zone the
\* instant is shown in, not the instant; results are kept in UTC.
get_local_sunrise_time(la, lo, d) ==
    LET sr == _calc_sun_time(la, lo, d, TRUE)
    IN  IF sr.kind = "None" THEN SunTimeException(NeverRises) ELSE sr

\* get_local_sunset_time (lines 29-44)
get_local_sunset_time(la, lo, d) ==
    LET ss == _calc_sun_time(la, lo, d, FALSE)
    IN  IF ss.kind = "None" THEN SunTimeException(NeverSets) ELSE ss

(***************************************************************************)
(* main.py                                                                 *)
(***************************************************************************)
\* A (lat, lon) pair as the glue passes it around; (None, None) is NoneCoord
NoneCoord == [some |-> FALSE, lat |-> 0, lon |-> 0]
Coord(la, lo) == [some |-> TRUE, lat |-> la, lon |-> lo]

\* Time.  time.time() and the ts of the file are counted in ticks of 0.1 s,
\* the length of time.sleep(.1) of line 57.
TicksPerSecond == 10
SleepTicks == 1

\* 3600 * 24 of line 29, in seconds and in ticks
DaySeconds == 3600 * 24
DayTicks == DaySeconds * TicksPerSecond

\* The text json.dump writes at line 43, as far as its length goes:
\* {"ts": <seconds>, "lon": <degrees>, "lat": <degrees>}, the numbers in the
\* shortest decimal form of float (0.0, 86400.1, 52.5, -122.42)
RECURSIVE Digits(_)
Digits(n) == IF n < 10 THEN 1 ELSE 1 + Digits(n \div 10)
TsLen(ts) == Digits(ts \div TicksPerSecond) + 2
CoordLen(v) ==
    (IF v < 0 THEN 1 ELSE 0) + Digits(Abs(v) \div 100) + 1
        + (IF Abs(v) % 10 = 0 THEN 1 ELSE 2)
JsonPunctuation == 26
JsonLen(ts, la, lo) == JsonPunctuation + TsLen(ts) + CoordLen(lo) + CoordLen(la)

\* The cache file /tmp/auto-switch: absent; empty, between the open(.., 'w')
\* of line 40 and the dump of line 43; the JSON object it holds; or the text
\* of one object followed by the end of a longer one, left by two writers
\* that overlap.  len is the length of the text, json whether it parses.
NoFile == [exists |-> FALSE, json |-> FALSE, len |-> 0,
           ts |-> 0, lat |-> 0, lon |-> 0]
EmptyFile == [exists |-> TRUE, json |-> FALSE, len |-> 0,
              ts |-> 0, lat |-> 0, lon |-> 0]
FileOf(ts, la, lo) == [exists |-> TRUE, json |-> TRUE, len |-> JsonLen(ts, la, lo),
                       ts |-> ts, lat |-> la, lon |-> lo]
Garbled(n) == [exists |-> TRUE, json |-> FALSE, len |-> n,
               ts |-> 0, lat |-> 0, lon |-> 0]

\* Line 28: json.load raises JSONDecodeError on a file that holds no JSON
\* object; line 31 catches FileNotFoundError only
JSONDecodeError(f) == f.exists /\ ~f.json

\* Lines 41-43 and the close of line 40's file: the text of new is written
\* from offset 0 over whatever the file holds by then
Dumped(cur, new) == IF new.len >= cur.len THEN new ELSE Garbled(cur.len)

\* data_cache.inner, lines 26-32, on file f at time.time() = t: whether the
\* cached pair is returned at once (line 29), and the local data otherwise
\* (the object loaded at line 28, or the one built at line 32)
Fresh(f, t) == f.exists /\ t - f.ts < DayTicks
DataOf(f, t) == IF f.exists THEN f ELSE FileOf(t, 0, 0)

\* data_cache.inner, lines 34-44, once fun() has returned funResult: what
\* inner returns, whether it writes the file, and the object it writes
InnerReturn(data, funResult) ==
    IF funResult.some THEN funResult
    ELSE IF data.lat # 0 /\ data.lon # 0 THEN Coord(data.lat, data.lon)
    ELSE Coord(0, 0)
InnerWrites(funResult) == funResult.some
InnerWritten(data, funResult) == FileOf(data.ts, funResult.lat, funResult.lon)

\* range(10) of line 54
Polls == 10

\* CLLocationManager.authorizationStatus(): 3 is kCLAuthorizationStatusAuthorizedAlways
AuthStatuses == {0, 2, 3}

\* get_coordinates before decoration (lines 49-62): the loop has no break,
\* so its else clause (line 59) runs after the last poll
LoopElseReturn == NoneCoord

\* Line 55: the poll finds no authorised location, and line 57 sleeps
Sleeps(a, l) == a # 3 \/ ~l.some

\* Coordinates the device or the wrapped function may report
DeviceCoords == { Coord(5250, 1340), Coord(3777, -12242) }

\* The processes that may be inside inner() at the same time
Procs == {"A", "B"}

NoWrite == [valid |-> FALSE, at |-> 0, coord |-> NoneCoord]
NoCall == [made |-> FALSE, at |-> 0, ret |-> NoneCoord, calledFun |-> FALSE,
           wrote |-> FALSE, raised |-> FALSE, prior |-> NoWrite]
\* A call that has ended: made at time t, with the last write as it found it
CallReturned(t, prior, ret, calledFun, wrote) ==
    [made |-> TRUE, at |-> t, ret |-> ret, calledFun |-> calledFun,
     wrote |-> wrote, raised |-> FALSE, prior |-> prior]
Raised(t, prior) ==
    [made |-> TRUE, at |-> t, ret |-> NoneCoord, calledFun |-> FALSE,
     wrote |-> FALSE, raised |-> TRUE, prior |-> prior]
\* A process outside inner(), one inside fun() and one between lines 40 and
\* 43: the local data, the time read at line 29 or 32, the last write as the
\* call found it, and what fun() returned
NotInInner == [pc |-> "idle", data |-> NoFile, at |-> 0, prior |-> NoWrite,
               result |-> NoneCoord]
InFun(data, t, prior) == [pc |-> "fun", data |-> data, at |-> t, prior |-> prior,
                          result |-> NoneCoord]
InWrite(c, funResult) == [c EXCEPT !.pc = "write", !.result = funResult]
NoSplit == [done |-> FALSE, year |-> 0, month |-> 0, day |-> 0,
            hour |-> 0, minute |-> 0]
NoReturn == [done |-> FALSE, value |-> NoneCoord]

(***************************************************************************)
(* Rest values of the variables a specification does not use               *)
(***************************************************************************)
SunIdle ==
    /\ lat = 0 /\ lon = 0 /\ date = Day(2023, 1, 30)
    /\ sunrise = Pending /\ sunset = Pending
    /\ riseCalc = NoCalc /\ setCalc = NoCalc
DoyIdle == doyDate = Day(2023, 1, 30) /\ doyN = 0
SplitIdle == splitUT = 0 /\ splitDate = Day(2023, 1, 30) /\ splitOut = NoSplit
CoordIdle ==
    /\ poll = 0 /\ auth = 0 /\ location = NoneCoord
    /\ everAvailable = FALSE /\ coordRet = NoReturn
CacheIdle ==
    /\ clock = 0 /\ file = NoFile /\ inner = [p \in Procs |-> NotInInner]
    /\ call = NoCall /\ lastWrite = NoWrite
MainIdle == mainPc = "idle" /\ now = Pending /\ commands = <<>>

(***************************************************************************)
(* Spec: the calculator's two public operations on the sample inputs       *)
(***************************************************************************)
Init ==
    /\ \E c \in Coords : lat = c[1] /\ lon = c[2]
    /\ date \in Dates
    /\ sunrise = Pending /\ sunset = Pending
    /\ riseCalc = NoCalc /\ setCalc = NoCalc
    /\ DoyIdle /\ SplitIdle /\ CoordIdle /\ CacheIdle /\ MainIdle

CallSunrise ==
    /\ sunrise = Pending
    /\ sunrise' = get_local_sunrise_time(lat, lon, date)
    /\ riseCalc' = CalcTrace(lat, lon, date, TRUE)
    /\ UNCHANGED <<lat, lon, date, sunset, setCalc>>
    /\ UNCHANGED <<doyVars, splitVars, coordVars, cacheVars, mainVars>>

CallSunset ==
    /\ sunset = Pending
    /\ sunset' = get_local_sunset_time(lat, lon, date)
    /\ setCalc' = CalcTrace(lat, lon, date, FALSE)
    /\ UNCHANGED <<lat, lon, date, sunrise, riseCalc>>
    /\ UNCHANGED <<doyVars, splitVars, coordVars, cacheVars, mainVars>>

Next == CallSunrise \/ CallSunset

Spec == Init /\ [][Next]_vars

(***************************************************************************)
(* SpecDayOfYear: step 1 on every date of the sample years                 *)
(***************************************************************************)
Years == {1900, 2000, 2023, 2024, 2100}

InitDayOfYear ==
    /\ \E y \in Years, m \in 1..12 :
          \E d \in 1..DaysInMonth(y, m) : doyDate = Day(y, m, d)
    /\ doyN = 0
    /\ SunIdle /\ SplitIdle /\ CoordIdle /\ CacheIdle /\ MainIdle

CalcDayOfYear ==
    /\ doyN = 0
    /\ doyN' = DayOfYear(doyDate.year, doyDate.month, doyDate.day)
    /\ UNCHANGED <<doyDate, sunVars, splitVars, coordVars, cacheVars, mainVars>>

NextDayOfYear == CalcDayOfYear

SpecDayOfYear == InitDayOfYear /\ [][NextDayOfYear]_vars

(***************************************************************************)
(* SpecSplit: steps 10 and 11 on a grid of UT in [0, 24)                   *)
(***************************************************************************)
\* Grid step of the UT samples, in 10^-6 hour
FracStep == 3125

\* Fractions next to a rounding boundary: just below and above half a
\* minute, and around 59.5 minutes
EdgeFracs == {8333, 8334, 991666, 991667, 999999}

UTSamples ==
    { h * Scale + k * FracStep : h \in 0..23, k \in 0..((Scale \div FracStep) - 1) }
    \cup { h * Scale + f : h \in 0..23, f \in EdgeFracs }

SplitDates == { Day(2023, 1, 31), Day(2024, 6, 21) }

InitSplit ==
    /\ splitUT \in UTSamples
    /\ splitDate \in SplitDates
    /\ splitOut = NoSplit
    /\ SunIdle /\ DoyIdle /\ CoordIdle /\ CacheIdle /\ MainIdle

Split ==
    /\ ~splitOut.done
    /\ splitOut' = [done |-> TRUE] @@ TimeFields(splitUT, splitDate)
    /\ UNCHANGED <<splitUT, splitDate, sunVars, doyVars, coordVars, cacheVars, mainVars>>

NextSplit == Split

SpecSplit == InitSplit /\ [][NextSplit]_vars

(***************************************************************************)
(* SpecCoordinates: one call of get_coordinates before decoration          *)
(***************************************************************************)
InitCoordinates ==
    /\ CoordIdle
    /\ SunIdle /\ DoyIdle /\ SplitIdle /\ CacheIdle /\ MainIdle

\* One pass of the loop body (lines 54-57): the authorisation status and the
\* manager's location are read, and the pass sleeps 0.1 s when there is no
\* authorised location; nothing leaves the loop
Poll ==
    /\ poll < Polls
    /\ ~coordRet.done
    /\ \E a \in AuthStatuses, l \in {NoneCoord} \cup DeviceCoords :
          /\ auth' = a
          /\ location' = l
          /\ everAvailable' = (everAvailable \/ (a = 3 /\ l.some))
          /\ clock' = IF Sleeps(a, l) THEN clock + SleepTicks ELSE clock
    /\ poll' = poll + 1
    /\ UNCHANGED <<coordRet, file, inner, call, lastWrite>>
    /\ UNCHANGED <<sunVars, doyVars, splitVars, mainVars>>

\* The loop is exhausted: its else clause returns (line 59)
LoopEnd ==
    /\ poll = Polls
    /\ ~coordRet.done
    /\ coordRet' = [done |-> TRUE, value |-> LoopElseReturn]
    /\ UNCHANGED <<poll, auth, location, everAvailable>>
    /\ UNCHANGED <<sunVars, doyVars, splitVars, cacheVars, mainVars>>

NextCoordinates == Poll \/ LoopEnd

SpecCoordinates == InitCoordinates /\ [][NextCoordinates]_vars

(***************************************************************************)
(* SpecCache: calls of a data_cache-wrapped function by two processes, as  *)
(* time passes.  A call goes in steps: the read of the file and the clock  *)
(* (lines 26-32), fun() (line 34), the return without a write (lines       *)
(* 35-38) or the open for writing (line 40), and the dump and return       *)
(* (lines 41-44); the calls of the two processes interleave.               *)
(***************************************************************************)
\* The clock stops here, in ticks (two days)
MaxClock == 1728000

\* The wrapped functions sleep at most this many ticks in any half day
MaxSleeps == 2

HalfDayTicks == DayTicks \div 2

InitCache ==
    /\ CacheIdle
    /\ SunIdle /\ DoyIdle /\ SplitIdle /\ CoordIdle /\ MainIdle

\* Half a day passes between calls: a call lasts less than that
CacheTick ==
    /\ \A p \in Procs : inner[p].pc = "idle"
    /\ clock + HalfDayTicks <= MaxClock
    /\ clock' = clock + HalfDayTicks
    /\ UNCHANGED <<file, inner, call, lastWrite>>
    /\ UNCHANGED <<sunVars, doyVars, splitVars, coordVars, mainVars>>

\* Lines 26-32: process p enters inner(), which reads the file and the
\* clock; it fails on a file that does not parse, returns the cached pair at
\* once (line 30), or goes on to fun()
CacheCall(p) ==
    /\ inner[p].pc = "idle"
    /\ IF JSONDecodeError(file)
       THEN /\ call' = Raised(clock, lastWrite)
            /\ UNCHANGED inner
       ELSE IF Fresh(file, clock)
       THEN /\ call' = CallReturned(clock, lastWrite, Coord(file.lat, file.lon),
                                    FALSE, FALSE)
            /\ UNCHANGED inner
       ELSE /\ inner' = [inner EXCEPT
                           ![p] = InFun(DataOf(file, clock), clock, lastWrite)]
            /\ UNCHANGED call
    /\ UNCHANGED <<clock, file, lastWrite>>
    /\ UNCHANGED <<sunVars, doyVars, splitVars, coordVars, mainVars>>

\* Line 34, inside fun(): the wrapped function of process p sleeps 0.1 s
CacheFunSleep(p) ==
    /\ inner[p].pc = "fun"
    /\ clock % HalfDayTicks < MaxSleeps
    /\ clock' = clock + SleepTicks
    /\ UNCHANGED <<file, inner, call, lastWrite>>
    /\ UNCHANGED <<sunVars, doyVars, splitVars, coordVars, mainVars>>

\* Lines 34-40: fun() of process p returns; inner() returns the pair of data
\* (lines 35-38), or opens the file for writing, which empties it (line 40)
CacheFunReturn(p) ==
    /\ inner[p].pc = "fun"
    /\ \E fr \in {NoneCoord} \cup DeviceCoords :
          IF InnerWrites(fr)
          THEN /\ file' = EmptyFile
               /\ inner' = [inner EXCEPT ![p] = InWrite(inner[p], fr)]
               /\ UNCHANGED call
          ELSE /\ call' = CallReturned(inner[p].at, inner[p].prior,
                                       InnerReturn(inner[p].data, fr),
                                       TRUE, FALSE)
               /\ inner' = [inner EXCEPT ![p] = NotInInner]
               /\ UNCHANGED file
    /\ UNCHANGED <<clock, lastWrite>>
    /\ UNCHANGED <<sunVars, doyVars, splitVars, coordVars, mainVars>>

\* Lines 41-44: process p dumps data with the new pair into the file it
\* opened, and inner() returns the pair
CacheDump(p) ==
    /\ inner[p].pc = "write"
    /\ file' = Dumped(file, InnerWritten(inner[p].data, inner[p].result))
    /\ lastWrite' = [valid |-> TRUE, at |-> clock, coord |-> inner[p].result]
    /\ call' = CallReturned(inner[p].at, inner[p].prior,
                            InnerReturn(inner[p].data, inner[p].result),
                            TRUE, TRUE)
    /\ inner' = [inner EXCEPT ![p] = NotInInner]
    /\ UNCHANGED clock
    /\ UNCHANGED <<sunVars, doyVars, splitVars, coordVars, mainVars>>

NextCache ==
    \/ CacheTick
    \/ \E p \in Procs : CacheCall(p)
    \/ \E p \in Procs : CacheFunSleep(p)
    \/ \E p \in Procs : CacheFunReturn(p)
    \/ \E p \in Procs : CacheDump(p)

SpecCache == InitCache /\ [][NextCache]_vars

(***************************************************************************)
(* SpecMain: one run of main(), process "A", beside whatever else writes   *)
(* /tmp/auto-switch                                                        *)
(***************************************************************************)
\* time.time() when the run starts, in ticks
MainClock == 2 * DayTicks

\* /tmp/auto-switch as the run finds it: absent, emptied by a writer that
\* has not dumped yet, or holding coordinates written less than a day ago
\* or a day ago.  The file is the only way coordinates other than (0, 0)
\* reach main: see LoopElseReturn.
MainFiles ==
    {NoFile, EmptyFile} \cup
    { FileOf(ts, c[1], c[2]) : ts \in {MainClock, MainClock - DayTicks},
                               c \in Coords }

\* What another process may put in /tmp/auto-switch during the run
OtherFiles ==
    {EmptyFile} \cup { FileOf(MainClock, c.lat, c.lon) : c \in DeviceCoords }

InitMain ==
    /\ mainPc = "start" /\ now = Pending /\ commands = <<>>
    /\ clock = MainClock /\ file \in MainFiles
    /\ inner = [p \in Procs |-> NotInInner]
    /\ call = NoCall /\ lastWrite = NoWrite
    /\ lat = 0 /\ lon = 0 /\ date \in Dates
    /\ sunrise = Pending /\ sunset = Pending
    /\ riseCalc = NoCalc /\ setCalc = NoCalc
    /\ DoyIdle /\ SplitIdle /\ CoordIdle

\* Line 66 and lines 26-32: main calls the decorated get_coordinates, whose
\* inner() reads the file and the clock; it fails on a file that does not
\* parse, which ends main, returns the cached pair at once, or goes on to
\* the undecorated get_coordinates
MainGetCoordinates ==
    /\ mainPc = "start"
    /\ IF JSONDecodeError(file)
       THEN /\ call' = Raised(clock, lastWrite)
            /\ mainPc' = "raised"
            /\ UNCHANGED <<lat, lon, inner>>
       ELSE IF Fresh(file, clock)
       THEN /\ lat' = file.lat /\ lon' = file.lon
            /\ call' = CallReturned(clock, lastWrite, Coord(file.lat, file.lon),
                                    FALSE, FALSE)
            /\ mainPc' = "sunrise"
            /\ UNCHANGED inner
       ELSE /\ inner' = [inner EXCEPT
                           !["A"] = InFun(DataOf(file, clock), clock, lastWrite)]
            /\ mainPc' = "fun"
            /\ UNCHANGED <<lat, lon, call>>
    /\ UNCHANGED <<date, sunrise, sunset, riseCalc, setCalc, clock, file,
                   lastWrite, now, commands>>
    /\ UNCHANGED <<doyVars, splitVars, coordVars>>

\* Lines 54-57 inside that call: one pass of the loop, which sleeps 0.1 s
\* when it finds no authorised location
MainPoll ==
    /\ mainPc = "fun"
    /\ poll < Polls
    /\ \E a \in AuthStatuses, l \in {NoneCoord} \cup DeviceCoords :
          clock' = IF Sleeps(a, l) THEN clock + SleepTicks ELSE clock
    /\ poll' = poll + 1
    /\ UNCHANGED <<auth, location, everAvailable, coordRet>>
    /\ UNCHANGED <<file, inner, call, lastWrite>>
    /\ UNCHANGED <<sunVars, doyVars, splitVars, mainVars>>

\* Another process replaces /tmp/auto-switch while main is inside fun()
MainFileReplaced ==
    /\ mainPc = "fun"
    /\ \E f \in OtherFiles : f # file /\ file' = f
    /\ UNCHANGED <<clock, inner, call, lastWrite>>
    /\ UNCHANGED <<sunVars, doyVars, splitVars, coordVars, mainVars>>

\* Lines 58-59, 34-38 and 66: the loop's else clause returns (None, None),
\* so inner() takes the branch of line 35 and returns the pair of data
\* without opening the file, and main binds lat and lon
MainCoordinatesReturn ==
    /\ mainPc = "fun"
    /\ poll = Polls
    /\ ~InnerWrites(LoopElseReturn)
    /\ LET ret == InnerReturn(inner["A"].data, LoopElseReturn)
       IN  /\ lat' = ret.lat /\ lon' = ret.lon
           /\ call' = CallReturned(inner["A"].at, inner["A"].prior, ret,
                                   TRUE, FALSE)
    /\ inner' = [inner EXCEPT !["A"] = NotInInner]
    /\ mainPc' = "sunrise"
    /\ UNCHANGED <<date, sunrise, sunset, riseCalc, setCalc, clock, file,
                   lastWrite, now, commands>>
    /\ UNCHANGED <<doyVars, splitVars, coordVars>>

\* Line 68; an exception leaves main
MainSunrise ==
    /\ mainPc = "sunrise"
    /\ sunrise' = get_local_sunrise_time(lat, lon, date)
    /\ riseCalc' = CalcTrace(lat, lon, date, TRUE)
    /\ mainPc' = IF sunrise'.kind = "datetime" THEN "sunset" ELSE "raised"
    /\ UNCHANGED <<lat, lon, date, sunset, setCalc, now, commands>>
    /\ UNCHANGED <<doyVars, splitVars, coordVars, cacheVars>>

\* Line 69
MainSunset ==
    /\ mainPc = "sunset"
    /\ sunset' = get_local_sunset_time(lat, lon, date)
    /\ setCalc' = CalcTrace(lat, lon, date, FALSE)
    /\ mainPc' = IF sunset'.kind = "datetime" THEN "decide" ELSE "raised"
    /\ UNCHANGED <<lat, lon, date, sunrise, riseCalc, now, commands>>
    /\ UNCHANGED <<doyVars, splitVars, coordVars, cacheVars>>

\* datetime.now() on the reference day: each full hour, and the two events
NowValues ==
    { MakeDatetime(date.year, date.month, date.day, h, 0) : h \in 0..23 }
    \cup {sunrise, sunset}

\* Lines 70-75
MainDecide ==
    /\ mainPc = "decide"
    /\ \E n \in NowValues :
          /\ now' = n
          /\ commands' =
                IF ToMinutes(n) > ToMinutes(sunset)
                THEN Append(commands, "set_dark_mode")
                ELSE IF ToMinutes(n) > ToMinutes(sunrise)
                THEN Append(commands, "set_light_mode")
                ELSE commands
    /\ mainPc' = "done"
    /\ UNCHANGED <<sunVars, doyVars, splitVars, coordVars, cacheVars>>

NextMain ==
    \/ MainGetCoordinates \/ MainPoll \/ MainFileReplaced
    \/ MainCoordinatesReturn
    \/ MainSunrise \/ MainSunset \/ MainDecide

SpecMain == InitMain /\ [][NextMain]_vars

(***************************************************************************)
(* Properties                                                              *)
(***************************************************************************)
InUnit(c) == c >= -Scale /\ c <= Scale
Returned(r) == r.kind # "pending"

\* C1: for both operations the failure text follows the sign of cosH: a
\* failure with cosH > 1 says "never rises", one with cosH < -1 says
\* "never sets".
C1_ReasonFollowsCosH ==
    /\ sunrise.kind = "SunTimeException" =>
          /\ riseCalc.cosH > Scale => sunrise.msg = NeverRises
          /\ riseCalc.cosH < -Scale => sunrise.msg = NeverSets
    /\ sunset.kind = "SunTimeException" =>
          /\ setCalc.cosH > Scale => sunset.msg = NeverRises
          /\ setCalc.cosH < -Scale => sunset.msg = NeverSets

\* C2: each operation returns an instant exactly when cosH lies in [-1, 1]
\* and raises SunTimeException exactly when it lies outside; None never
\* reaches the caller.
C2_InstantIffCosHInRange ==
    /\ Returned(sunrise) =>
          /\ sunrise.kind = "datetime" <=> InUnit(riseCalc.cosH)
          /\ sunrise.kind = "SunTimeException" <=> ~InUnit(riseCalc.cosH)
          /\ sunrise.kind # "None"
    /\ Returned(sunset) =>
          /\ sunset.kind = "datetime" <=> InUnit(setCalc.cosH)
          /\ sunset.kind = "SunTimeException" <=> ~InUnit(setCalc.cosH)
          /\ sunset.kind # "None"

\* C3: a sunrise or sunset call on a latitude in [-90, 90], a longitude in
\* [-180, 180] and a valid date either returns an instant or fails with
\* SunTimeException; it fails with nothing else.
C3_OnlySunTimeException ==
    /\ Returned(sunrise) => sunrise.kind \in {"datetime", "SunTimeException"}
    /\ Returned(sunset) => sunset.kind \in {"datetime", "SunTimeException"}

\* C4: when both events exist for a date, the sunrise instant is strictly
\* earlier than the sunset instant.
C4_SunriseBeforeSunset ==
    (sunrise.kind = "datetime" /\ sunset.kind = "datetime")
        => ToMinutes(sunrise) < ToMinutes(sunset)

\* C5: the integer formula of step 1 yields the ordinal day of the year of
\* every valid Gregorian date.
C5_DayOfYearIsOrdinal ==
    doyN # 0 => doyN = YearDay(doyDate.year, doyDate.month, doyDate.day)

\* C6: for UT in [0, 24) the split with its two carries gives an hour in
\* 0..23 and a minute in 0..59 that are UT rounded to the nearest minute
\* modulo 1440; the day advances by one exactly when the rounding reaches
\* 24:00 and is the reference day otherwise; year and month are unchanged.
C6_SplitRoundsToMinute ==
    splitOut.done =>
        LET adv == splitOut.day - splitDate.day
            R   == adv * 1440 + splitOut.hour * 60 + splitOut.minute
            err == R * Scale - 60 * splitUT
        IN  /\ splitOut.hour \in 0..23
            /\ splitOut.minute \in 0..59
            /\ adv \in {0, 1}
            /\ err <= Scale \div 2 /\ -err <= Scale \div 2
            /\ adv = 1 <=> 1440 * Scale - 60 * splitUT <= Scale \div 2
            /\ splitOut.year = splitDate.year
            /\ splitOut.month = splitDate.month

\* C6 witness: a UT in [23, 24) whose minute rounds to 60 has been split:
\* the result is 00:00 of the next day.
C6_Witness ==
    /\ splitOut.done
    /\ splitUT >= 23 * Scale
    /\ splitOut.day = splitDate.day + 1
    /\ splitOut.hour = 0 /\ splitOut.minute = 0

\* C7: after _force_range, L and RA lie in [0, 360) and UT lies in [0, 24),
\* each congruent to the value before normalisation.
C7_ForceRangeNormalises ==
    \A c \in {riseCalc, setCalc} :
        c.done =>
            /\ c.L >= 0 /\ c.L < 360 * Scale
            /\ c.RA >= 0 /\ c.RA < 360 * Scale
            /\ c.hasUT =>
                  /\ c.UT >= 0 /\ c.UT < 24 * Scale
                  /\ (c.UT - c.rawUT) % (24 * Scale) = 0

\* C8: if some poll found the authorisation granted and a location
\* reported, get_coordinates returns a location, not (None, None).
C8_ReturnsAvailableLocation ==
    (coordRet.done /\ everAvailable) => coordRet.value.some

\* C9: a call made less than 24 hours after an earlier call wrote
\* coordinates to the file returns those coordinates (it does not fail),
\* without calling the wrapped function and without writing the file.
C9_CachedWithinDay ==
    (call.made /\ call.prior.valid /\ call.at - call.prior.at < DayTicks)
        => /\ ~call.raised
           /\ call.ret = call.prior.coord
           /\ ~call.calledFun
           /\ ~call.wrote

\* C10: a run issues at most one command: set_dark_mode only when
\* now > sunset, set_light_mode only when sunrise < now <= sunset, none when
\* now <= sunrise, and none when a sun-time call raised.
C10_CommandFollowsTime ==
    /\ Len(commands) <= 1
    /\ mainPc = "raised" => commands = <<>>
    /\ mainPc = "done" =>
          /\ commands = <<"set_dark_mode">>
                => ToMinutes(now) > ToMinutes(sunset)
          /\ commands = <<"set_light_mode">>
                => /\ ToMinutes(sunrise) < ToMinutes(now)
                   /\ ToMinutes(now) <= ToMinutes(sunset)
          /\ ToMinutes(now) <= ToMinutes(sunrise) => commands = <<>>

====
